---- MODULE Spec2Model ----
(***************************************************************************)
(* Model of src/etl_backend.py: the Flask route /process (process_data),   *)
(* an ETL pipeline that turns a sales table and an optional inventory      *)
(* table into a dense (day x series) grid.                                 *)
(*                                                                         *)
(* Representation                                                          *)
(*   - a DataFrame is a sequence of records; the field idx is the row's    *)
(*     index label (what .index / .loc use);                               *)
(*   - a text (brand, style, series_id) is a sequence of character codes,  *)
(*     so that concatenation and lexicographic order are what Python's     *)
(*     are; item_id is only ever compared for equality and is a string;    *)
(*   - a date of the CSV is <<year, month, day>>; a parsed Timestamp is    *)
(*     the day's ordinal within the year 2024;                             *)
(*   - a float cell is a reduced fraction <<num, den>>; <<0, 0>> is NaN    *)
(*     and <<+-1, 0>> is +-inf (numpy's results for x / 0).                *)
(***************************************************************************)
EXTENDS Integers, Sequences, FiniteSets, TLC

VARIABLES request, pc, vendas_df, inventario_df, vendas_agregadas_df,
          inventario_agregado_df, response

vars == <<request, pc, vendas_df, inventario_df, vendas_agregadas_df,
          inventario_agregado_df, response>>

(***************************************************************************)
(* Bounds of the model.                                                    *)
(***************************************************************************)
\* Rows uploaded in one request, sales and inventory rows together.
MaxRows == 3

(***************************************************************************)
(* Arithmetic: float cells.                                                *)
(***************************************************************************)
Abs(n) == IF n < 0 THEN -n ELSE n

RECURSIVE GCD(_, _)
GCD(a, b) == IF b = 0 THEN a ELSE GCD(b, a % b)

NaN == <<0, 0>>

\* An integer as a float cell.
Num(k) == <<k, 1>>

\* numpy's a / b on numbers: 0/0 is nan, x/0 is +-inf, no exception.
TrueDiv(a, b) ==
    IF b = 0
    THEN IF a = 0 THEN NaN ELSE IF a > 0 THEN <<1, 0>> ELSE <<-1, 0>>
    ELSE LET g == GCD(Abs(a), Abs(b))
             s == IF b < 0 THEN -1 ELSE 1
         IN  <<(s * a) \div g, (s * b) \div g>>

RECURSIVE SumSeq(_)
SumSeq(s) == IF s = <<>> THEN 0 ELSE Head(s) + SumSeq(Tail(s))

(***************************************************************************)
(* Texts and dates.                                                        *)
(***************************************************************************)
\* "_" as a text.
Underscore == <<95>>

\* Python's str comparison a < b: lexicographic by code point.
RECURSIVE StrLess(_, _)
StrLess(a, b) ==
    IF b = <<>> THEN FALSE
    ELSE IF a = <<>> THEN TRUE
    ELSE IF Head(a) # Head(b) THEN Head(a) < Head(b)
    ELSE StrLess(Tail(a), Tail(b))

\* Days of the months of 2024.
MonthDays == <<31, 29, 31, 30, 31, 30, 31, 31, 30, 31, 30, 31>>

\* pd.to_datetime on a 'YYYY-MM-DD' text of 2024: the day's ordinal.
ToDatetime(date) ==
    SumSeq(SubSeq(MonthDays, 1, date[2] - 1)) + date[3]

\* Timestamp.strftime('%Y-%m-%d').
RECURSIVE MonthOf(_, _)
MonthOf(ord, m) ==
    IF ord <= MonthDays[m] THEN <<m, ord>> ELSE MonthOf(ord - MonthDays[m], m + 1)

Strftime(ord) == <<2024>> \o MonthOf(ord, 1)

(***************************************************************************)
(* DataFrame helpers.                                                      *)
(***************************************************************************)
\* df[c] as a sequence of values.
Col(df, c) == [i \in DOMAIN df |-> df[i][c]]

\* Elementwise product of two columns.
Mul(a, b) == [i \in DOMAIN a |-> a[i] * b[i]]

\* The values of a sequence, as a set.
Range(s) == {s[i] : i \in DOMAIN s}

\* Series.min() / Series.max() of a non-empty integer column.
Min(s) == CHOOSE x \in Range(s) : \A y \in Range(s) : x <= y

Max(s) == CHOOSE x \in Range(s) : \A y \in Range(s) : x >= y

\* A row with the fields of l and, for the other columns, those of r.
Combine(l, r) ==
    [c \in DOMAIN l \cup DOMAIN r |-> IF c \in DOMAIN l THEN l[c] ELSE r[c]]

\* A row without the columns in cols.
Drop(r, cols) == [c \in DOMAIN r \ cols |-> r[c]]

\* A fresh RangeIndex 0..n-1 (what read_csv and pd.merge give their result).
RangeIndex(df) == [i \in DOMAIN df |-> Combine([idx |-> i - 1], Drop(df[i], {"idx"}))]

\* df.loc[labels]: the rows of df whose index label is among labels.
Loc(df, labels) == SelectSeq(df, LAMBDA r : r.idx \in labels)

\* The first occurrences of a sequence's values, in order: Series.unique(),
\* DataFrame.drop_duplicates().
RECURSIVE Unique(_)
Unique(s) ==
    IF s = <<>> THEN <<>>
    ELSE LET init == Unique(SubSeq(s, 1, Len(s) - 1))
             last == s[Len(s)]
         IN  IF last \in Range(init) THEN init ELSE Append(init, last)

\* Order of groupby keys <<timestamp, series_id>>: by day, then by text.
KeyLess(a, b) == a[1] < b[1] \/ (a[1] = b[1] /\ StrLess(a[2], b[2]))

\* A finite set of groupby keys as the sorted sequence (groupby sorts its
\* group keys).
RECURSIVE SortKeys(_)
SortKeys(S) ==
    IF S = {} THEN <<>>
    ELSE LET m == CHOOSE x \in S : \A y \in S \ {x} : KeyLess(x, y)
         IN  <<m>> \o SortKeys(S \ {m})

\* The same for the keys of a groupby on one text column.
RECURSIVE SortTexts(_)
SortTexts(S) ==
    IF S = {} THEN <<>>
    ELSE LET m == CHOOSE x \in S : \A y \in S \ {x} : StrLess(x, y)
         IN  <<m>> \o SortTexts(S \ {m})

\* pd.merge(left, right, on=on, how='left'): every left row, in order, once
\* per right row with the same key (in right's order); a left row without a
\* match once, with nan for right's other columns.
RECURSIVE MergeLeft(_, _, _, _)
MergeLeft(left, right, on, nan) ==
    IF left = <<>> THEN <<>>
    ELSE LET l == Head(left)
             hits == SelectSeq(right, LAMBDA r : \A c \in on : r[c] = l[c])
             rows == IF hits = <<>>
                     THEN <<Combine(l, nan)>>
                     ELSE [i \in DOMAIN hits |-> Combine(l, hits[i])]
         IN  rows \o MergeLeft(Tail(left), right, on, nan)

(***************************************************************************)
(* 1. Loading and validation (lines 29-74).                                *)
(***************************************************************************)
colunas_obrigatorias_vendas ==
    <<"timestamp", "item_id", "product_brand", "product_style",
      "target_quantity", "price">>

colunas_obrigatorias_inventario == <<"snapshot_date", "item_id", "quantity_on_hand">>

\* Mutant of ColunasFaltantes: the first absent column only.
PrimeiraColunaFaltante(obrigatorias, columns) ==
    LET faltantes == SelectSeq(obrigatorias, LAMBDA c : c \notin columns)
    IN  IF faltantes = <<>> THEN <<>> ELSE <<Head(faltantes)>>

\* [col for col in obrigatorias if col not in df.columns]
ColunasFaltantes(obrigatorias, columns) ==
    SelectSeq(obrigatorias, LAMBDA c : c \notin columns)

\* pd.read_csv: the file's rows under a RangeIndex.
ReadCsv(file) == RangeIndex(file.rows)

\* The optional frames: None, or a DataFrame.
None == [is_none |-> TRUE, rows |-> <<>>]

Frame(rows) == [is_none |-> FALSE, rows |-> rows]

\* 'inventory_file' in request.files and its filename != ''.
InventorySupplied(req) ==
    req.inventory_file.present /\ req.inventory_file.filename # ""

(***************************************************************************)
(* 2. Feature engineering (lines 76-82).                                   *)
(***************************************************************************)
SeriesId(r) == r.product_brand \o Underscore \o r.product_style

SalesFeatures(df) ==
    [i \in DOMAIN df |->
        Combine([timestamp |-> ToDatetime(df[i].timestamp),
                 series_id |-> SeriesId(df[i])], df[i])]

(***************************************************************************)
(* 3. Sales aggregation (lines 84-98).                                     *)
(***************************************************************************)
\* The rows of one (timestamp, series_id) group.
VendasGroup(df, k) == SelectSeq(df, LAMBDA r : <<r.timestamp, r.series_id>> = k)

\* Mutant of PrecoMedioPonderado: the weighted price over the whole table
\* instead of the group's rows.
PrecoMedioTabelaInteira(df, x) ==
    TrueDiv(SumSeq(Mul(Col(df, "price"), Col(df, "target_quantity"))),
            SumSeq(Col(df, "target_quantity")))

\* The lambda of lines 89-91: x is the group; only x.index is used, to
\* select from the whole table.
PrecoMedioPonderado(df, x) ==
    LET sel == Loc(df, Range(Col(x, "idx")))
    IN  TrueDiv(SumSeq(Mul(Col(sel, "price"), Col(sel, "target_quantity"))),
                SumSeq(Col(sel, "target_quantity")))

VendasAgregadas(df) ==
    LET keys == SortKeys({<<df[i].timestamp, df[i].series_id>> : i \in DOMAIN df})
    IN  [n \in DOMAIN keys |->
            LET x == VendasGroup(df, keys[n])
            IN  [timestamp |-> keys[n][1],
                 series_id |-> keys[n][2],
                 total_quantity_sold |-> Num(SumSeq(Col(x, "target_quantity"))),
                 preco_medio_praticado |-> PrecoMedioPonderado(df, x)]]

(***************************************************************************)
(* 4. Inventory processing (lines 100-151).                                *)
(***************************************************************************)
\* The value a left merge gives a text column without a match (NaN): no
\* text, every code being >= 0.
MissingText == <<-1>>

InventoryDates(df) ==
    [i \in DOMAIN df |->
        Combine([snapshot_date |-> ToDatetime(df[i].snapshot_date)], df[i])]

\* vendas_df[['item_id', 'series_id']].drop_duplicates()
MapaId(vendas) ==
    Unique([i \in DOMAIN vendas |->
               [item_id |-> vendas[i].item_id, series_id |-> vendas[i].series_id]])

\* Mutant of InventarioMapeado: the rows without a series kept under the
\* series of the first sale (a fillna where the dropna is).
InventarioMapeadoPreenchido(inv, vendas) ==
    LET merged == RangeIndex(MergeLeft(inv, MapaId(vendas), {"item_id"},
                                       [series_id |-> MissingText]))
    IN  [i \in DOMAIN merged |->
            IF merged[i].series_id = MissingText /\ vendas # <<>>
            THEN Combine([series_id |-> vendas[1].series_id], merged[i])
            ELSE merged[i]]

\* Lines 112-115: the merge on item_id, then dropna(subset=['series_id']),
\* which keeps the merge's index labels.
InventarioMapeado(inv, vendas) ==
    SelectSeq(RangeIndex(MergeLeft(inv, MapaId(vendas), {"item_id"},
                                   [series_id |-> MissingText])),
              LAMBDA r : r.series_id # MissingText)

\* Lines 118-119: distinct item_ids per series over the whole sales table.
TotalSkusPorSerie(vendas) ==
    LET keys == SortTexts(Range(Col(vendas, "series_id")))
    IN  [n \in DOMAIN keys |->
            [series_id |-> keys[n],
             total_skus_contagem |->
                 Num(Cardinality({vendas[i].item_id :
                        i \in {j \in DOMAIN vendas : vendas[j].series_id = keys[n]}}))]]

\* The rows of one (snapshot_date, series_id) group.
InventarioGroup(df, k) ==
    SelectSeq(df, LAMBDA r : <<r.snapshot_date, r.series_id>> = k)

\* Mutant of ModelosDisponiveis: the items in stock of the whole table
\* instead of the group's rows.
ModelosDisponiveisTabela(df, x) ==
    Cardinality(Range(Col(SelectSeq(df, LAMBDA r : r.quantity_on_hand > 0), "item_id")))

\* The lambda of lines 124-126: x is the group; only x.index is used.
ModelosDisponiveis(df, x) ==
    LET sel == Loc(df, Range(Col(x, "idx")))
        pos == SelectSeq(sel, LAMBDA r : r.quantity_on_hand > 0)
    IN  Cardinality(Range(Col(pos, "item_id")))

\* Lines 122-134: the groupby and the renames.
InventarioAgrupado(df) ==
    LET keys == SortKeys({<<df[i].snapshot_date, df[i].series_id>> : i \in DOMAIN df})
    IN  [n \in DOMAIN keys |->
            LET x == InventarioGroup(df, keys[n])
            IN  [timestamp |-> keys[n][1],
                 series_id |-> keys[n][2],
                 estoque_total_inicio_dia |-> Num(SumSeq(Col(x, "quantity_on_hand"))),
                 numero_modelos_disponiveis |-> Num(ModelosDisponiveis(df, x))]]

\* The float division of two cells: nan if either is.
CellDiv(a, b) ==
    IF a = NaN \/ b = NaN THEN NaN ELSE TrueDiv(a[1] * b[2], a[2] * b[1])

\* Lines 136-151, from the mapped inventory and the features of the sales.
InventarioAgregado(mapeado, vendas) ==
    LET merged == MergeLeft(InventarioAgrupado(mapeado), TotalSkusPorSerie(vendas),
                            {"series_id"}, [total_skus_contagem |-> NaN])
    IN  [i \in DOMAIN merged |->
            Drop(Combine([disponibilidade_sku_percentual |->
                              CellDiv(merged[i].numero_modelos_disponiveis,
                                      merged[i].total_skus_contagem)],
                         merged[i]),
                 {"total_skus_contagem"})]

(***************************************************************************)
(* 5. Master grid and consolidation (lines 153-186).                       *)
(***************************************************************************)
\* pd.date_range(start, end, freq='D')
DateRange(start, end) == [i \in 1 .. (end - start + 1) |-> start + i - 1]

\* Lines 156-169: product(datas_completas, series_ids_unicos).
MasterGrid(vendas) ==
    LET datas == DateRange(Min(Col(vendas, "timestamp")), Max(Col(vendas, "timestamp")))
        series == Unique(Col(vendas, "series_id"))
    IN  [n \in 1 .. Len(datas) * Len(series) |->
            [timestamp |-> datas[((n - 1) \div Len(series)) + 1],
             series_id |-> series[((n - 1) % Len(series)) + 1]]]

NanVendas == [total_quantity_sold |-> NaN, preco_medio_praticado |-> NaN]

NanInventario ==
    [estoque_total_inicio_dia |-> NaN, numero_modelos_disponiveis |-> NaN,
     disponibilidade_sku_percentual |-> NaN]

\* Lines 172-177.
MergeVendas(master, vagg) ==
    MergeLeft(master, vagg, {"timestamp", "series_id"}, NanVendas)

\* Mutant of MergeInventario: how='inner'.
MergeInventarioInner(master, iagg) ==
    IF iagg.is_none THEN master
    ELSE SelectSeq(MergeLeft(master, iagg.rows, {"timestamp", "series_id"},
                             NanInventario),
                   LAMBDA r : r.estoque_total_inicio_dia # NaN)

\* Lines 180-186.
MergeInventario(master, iagg) ==
    IF iagg.is_none THEN master
    ELSE MergeLeft(master, iagg.rows, {"timestamp", "series_id"}, NanInventario)

(***************************************************************************)
(* 6. Cleaning and formatting (lines 188-216).                             *)
(***************************************************************************)
\* Mutant of ColunasNumericas: the inventory columns not added.
ColunasNumericasVendas(iagg) == {"total_quantity_sold", "preco_medio_praticado"}

\* Lines 191-196.
ColunasNumericas(iagg) ==
    {"total_quantity_sold", "preco_medio_praticado"}
    \cup (IF iagg.is_none THEN {}
          ELSE {"estoque_total_inicio_dia", "disponibilidade_sku_percentual",
                "numero_modelos_disponiveis"})

\* Mutant of FillNa: no fillna.
FillNaOmitted(df, cols) == df

\* Line 198: df[cols] = df[cols].fillna(0)
FillNa(df, cols) ==
    [i \in DOMAIN df |->
        [c \in DOMAIN df[i] |->
            IF c \in cols /\ df[i][c] = NaN THEN Num(0) ELSE df[i][c]]]

\* Mutant of ColunasFinais: the inventory columns only when the inventory
\* aggregate has rows.
ColunasFinaisSeHouver(iagg) ==
    IF iagg.is_none \/ iagg.rows = <<>>
    THEN <<"timestamp", "series_id", "total_quantity_sold", "preco_medio_praticado">>
    ELSE <<"timestamp", "series_id", "total_quantity_sold", "preco_medio_praticado",
           "estoque_total_inicio_dia", "disponibilidade_sku_percentual",
           "numero_modelos_disponiveis">>

\* Lines 201-207.
ColunasFinais(iagg) ==
    IF iagg.is_none
    THEN <<"timestamp", "series_id", "total_quantity_sold", "preco_medio_praticado">>
    ELSE <<"timestamp", "series_id", "total_quantity_sold", "preco_medio_praticado",
           "estoque_total_inicio_dia", "disponibilidade_sku_percentual",
           "numero_modelos_disponiveis">>

\* Line 210: df[colunas_finais]
SelectColumns(df, cols) == [i \in DOMAIN df |-> [c \in Range(cols) |-> df[i][c]]]

\* Line 213: sort_values(['series_id', 'timestamp']).
RowLess(a, b) ==
    StrLess(a.series_id, b.series_id)
    \/ (a.series_id = b.series_id /\ a.timestamp < b.timestamp)

RECURSIVE SortValues(_)
SortValues(df) ==
    IF df = <<>> THEN <<>>
    ELSE LET sorted == SortValues(SubSeq(df, 1, Len(df) - 1))
             r == df[Len(df)]
             k == Cardinality({i \in DOMAIN sorted : ~RowLess(r, sorted[i])})
         IN  SubSeq(sorted, 1, k) \o <<r>> \o SubSeq(sorted, k + 1, Len(sorted))

\* Line 216: the timestamp column as 'YYYY-MM-DD'.
FormatTimestamp(df) ==
    [i \in DOMAIN df |-> Combine([timestamp |-> Strftime(df[i].timestamp)], df[i])]

\* Lines 153-216 together: the final master_df.
MasterDf(vendas, vagg, iagg) ==
    FormatTimestamp(
        SortValues(
            SelectColumns(
                FillNa(MergeInventario(MergeVendas(MasterGrid(vendas), vagg), iagg),
                       ColunasNumericas(iagg)),
                ColunasFinais(iagg))))

(***************************************************************************)
(* 7. Responses (lines 33, 37, 43, 51-53, 69-71, 74, 218-239).             *)
(***************************************************************************)
NoResponse == [status |-> 0, error |-> "", missing |-> <<>>, header |-> <<>>, rows |-> <<>>]

\* jsonify({'error': ...}), status: the message by its kind, and the columns
\* the message joins.
ErrorResponse(status, error, missing) ==
    [status |-> status, error |-> error, missing |-> missing,
     header |-> <<>>, rows |-> <<>>]

\* send_file of master_df.to_csv(index=False): header row and data rows.
CsvResponse(header, rows) ==
    [status |-> 200, error |-> "", missing |-> <<>>, header |-> header, rows |-> rows]

(***************************************************************************)
(* Requests: the uploads a run is checked on.                              *)
(***************************************************************************)
Items == {"i1", "i2"}

\* (brand, style) pairs "a"/"c" and "a_b"/"c": series "a_c" and "a_b_c",
\* which sort the other way round than their brands.
Products ==
    {[product_brand |-> <<97>>, product_style |-> <<99>>],
     [product_brand |-> <<97, 95, 98>>, product_style |-> <<99>>]}

\* The price a product sells at where prices are not under study.
ListPrice(p) == IF p.product_brand = <<97>> THEN 10 ELSE 20

\* Consecutive days across a month's end.
Dates == {<<2024, 1, 31>>, <<2024, 2, 1>>}

Quantities == {0, 1, 2}

Prices == {10, 20}

Stocks == {0, 3}

SalesRow(d, i, p, q, pr) ==
    [timestamp |-> d, item_id |-> i, product_brand |-> p.product_brand,
     product_style |-> p.product_style, target_quantity |-> q, price |-> pr]

InventoryRow(d, i, q) == [snapshot_date |-> d, item_id |-> i, quantity_on_hand |-> q]

SeqsUpTo(S, n) == UNION {[1 .. k -> S] : k \in 0 .. n}

\* A readable upload with a header and rows.
Upload(columns, rows) ==
    [present |-> TRUE, filename |-> "f.csv", readable |-> TRUE,
     columns |-> columns, rows |-> rows]

\* No such key in request.files.
Absent ==
    [present |-> FALSE, filename |-> "", readable |-> FALSE,
     columns |-> {}, rows |-> <<>>]

\* The form field submitted without a file.
Unnamed == [Absent EXCEPT !.present = TRUE]

\* A file pd.read_csv raises on.
Unreadable == [Absent EXCEPT !.present = TRUE, !.filename = "f.csv"]

SalesColumns == Range(colunas_obrigatorias_vendas)

InventoryColumns == Range(colunas_obrigatorias_inventario)

\* One product's sales in full detail of day, quantity and price, without
\* an inventory.
SalesStudy ==
    {[sales_file |-> Upload(SalesColumns, rows), inventory_file |-> Absent] :
        rows \in SeqsUpTo({SalesRow(d, "i1", CHOOSE p \in Products : ListPrice(p) = 10,
                                    q, pr) :
                              d \in Dates, q \in Quantities, pr \in Prices}, MaxRows)}

\* Days, items and products in full detail, each sale of one unit at the
\* product's list price, without an inventory or with one.
InventoryStudy ==
    {[sales_file |-> Upload(SalesColumns, t[1]), inventory_file |-> t[2]] :
        t \in {u \in SeqsUpTo({SalesRow(d, i, p, 1, ListPrice(p)) :
                                  d \in Dates, i \in Items, p \in Products}, MaxRows)
                     \X ({Absent} \cup
                         {Upload(InventoryColumns, rows) :
                            rows \in SeqsUpTo({InventoryRow(d, i, q) :
                                d \in Dates, i \in Items, q \in Stocks}, MaxRows)}) :
                  Len(u[1]) + Len(u[2].rows) <= MaxRows}}

\* One data row, cut to the columns a file has.
SampleSalesRow(columns) ==
    LET r == SalesRow(<<2024, 1, 31>>, "i1", CHOOSE p \in Products : TRUE, 1, 10)
    IN  [c \in columns \cap DOMAIN r |-> r[c]]

SampleInventoryRow(columns) ==
    LET r == InventoryRow(<<2024, 1, 31>>, "i1", 3)
    IN  [c \in columns \cap DOMAIN r |-> r[c]]

\* Uploads that are missing, unnamed, unreadable or lack columns.
Malformed ==
    {[sales_file |-> s, inventory_file |-> i] :
        s \in {Absent, Unnamed, Unreadable}
              \cup {Upload(c, <<SampleSalesRow(c)>>) : c \in SUBSET SalesColumns},
        i \in {Absent, Unnamed, Unreadable}
              \cup {Upload(c, <<SampleInventoryRow(c)>>) : c \in SUBSET InventoryColumns}}

Requests == SalesStudy \cup InventoryStudy \cup Malformed

(***************************************************************************)
(* Lines 76-239 as one function of the two loaded frames: the response of  *)
(* a run that passed validation.                                           *)
(***************************************************************************)
ProcessFrames(vendas_lido, inventario_lido) ==
    IF vendas_lido = <<>>
    THEN ErrorResponse(500, "processing_error", <<>>)
    ELSE LET vendas == SalesFeatures(vendas_lido)
             mapeado == InventarioMapeado(InventoryDates(inventario_lido.rows), vendas)
             iagg == IF inventario_lido.is_none THEN None
                     ELSE Frame(InventarioAgregado(mapeado, vendas))
         IN  CsvResponse(ColunasFinais(iagg),
                         MasterDf(vendas, VendasAgregadas(vendas), iagg))

(***************************************************************************)
(* The state machine: one run of process_data per behaviour.               *)
(***************************************************************************)
Init ==
    /\ request \in Requests
    /\ pc = "start"
    /\ vendas_df = <<>>
    /\ inventario_df = None
    /\ vendas_agregadas_df = <<>>
    /\ inventario_agregado_df = None
    /\ response = NoResponse

\* An early return: the response, nothing else touched.
Return(r) ==
    /\ pc' = "done"
    /\ response' = r
    /\ UNCHANGED <<request, vendas_df, inventario_df, vendas_agregadas_df,
                   inventario_agregado_df>>

SalesLoadable(req) ==
    /\ req.sales_file.present
    /\ req.sales_file.filename # ""
    /\ req.sales_file.readable

\* Lines 32-33.
RejectNoSalesFile ==
    /\ pc = "start"
    /\ ~request.sales_file.present
    /\ Return(ErrorResponse(400, "sales_file_required", <<>>))

\* Lines 35-37.
RejectUnnamedSalesFile ==
    /\ pc = "start"
    /\ request.sales_file.present
    /\ request.sales_file.filename = ""
    /\ Return(ErrorResponse(400, "no_sales_file_selected", <<>>))

\* Lines 40-43.
RejectUnreadableSales ==
    /\ pc = "start"
    /\ request.sales_file.present
    /\ request.sales_file.filename # ""
    /\ ~request.sales_file.readable
    /\ Return(ErrorResponse(400, "sales_read_error", <<>>))

\* Lines 45-53.
RejectSalesColumns ==
    /\ pc = "start"
    /\ SalesLoadable(request)
    /\ LET colunas_faltantes ==
               ColunasFaltantes(colunas_obrigatorias_vendas, request.sales_file.columns)
       IN  /\ colunas_faltantes # <<>>
           /\ Return(ErrorResponse(400, "sales_columns_missing", colunas_faltantes))

SalesValid(req) ==
    /\ SalesLoadable(req)
    /\ ColunasFaltantes(colunas_obrigatorias_vendas, req.sales_file.columns) = <<>>

\* Lines 60-61, 73-74.
RejectUnreadableInventory ==
    /\ pc = "start"
    /\ SalesValid(request)
    /\ InventorySupplied(request)
    /\ ~request.inventory_file.readable
    /\ Return(ErrorResponse(400, "inventory_read_error", <<>>))

\* Lines 63-71.
RejectInventoryColumns ==
    /\ pc = "start"
    /\ SalesValid(request)
    /\ InventorySupplied(request)
    /\ request.inventory_file.readable
    /\ LET colunas_faltantes_inv ==
               ColunasFaltantes(colunas_obrigatorias_inventario,
                                request.inventory_file.columns)
       IN  /\ colunas_faltantes_inv # <<>>
           /\ Return(ErrorResponse(400, "inventory_columns_missing",
                                   colunas_faltantes_inv))

InventoryValid(req) ==
    InventorySupplied(req) =>
        /\ req.inventory_file.readable
        /\ ColunasFaltantes(colunas_obrigatorias_inventario,
                            req.inventory_file.columns) = <<>>

\* Lines 29-74 without an early return: both frames loaded.
Validate ==
    /\ pc = "start"
    /\ SalesValid(request)
    /\ InventoryValid(request)
    /\ vendas_df' = ReadCsv(request.sales_file)
    /\ inventario_df' = IF InventorySupplied(request)
                        THEN Frame(ReadCsv(request.inventory_file))
                        ELSE None
    /\ pc' = "validated"
    /\ UNCHANGED <<request, vendas_agregadas_df, inventario_agregado_df, response>>

\* Lines 76-151: the features, the sales aggregate and, with an inventory,
\* the inventory aggregate.
Aggregate ==
    /\ pc = "validated"
    /\ LET vendas == SalesFeatures(vendas_df)
           mapeado == InventarioMapeado(InventoryDates(inventario_df.rows), vendas)
       IN  /\ vendas_df' = vendas
           /\ vendas_agregadas_df' = VendasAgregadas(vendas)
           /\ inventario_df' = IF inventario_df.is_none THEN None ELSE Frame(mapeado)
           /\ inventario_agregado_df' =
                  IF inventario_df.is_none THEN None
                  ELSE Frame(InventarioAgregado(mapeado, vendas))
    /\ pc' = "aggregated"
    /\ UNCHANGED <<request, response>>

\* Lines 153-235: the grid, the merges, the cleaning and the CSV.
Densify ==
    /\ pc = "aggregated"
    /\ vendas_df # <<>>
    /\ response' = CsvResponse(ColunasFinais(inventario_agregado_df),
                               MasterDf(vendas_df, vendas_agregadas_df,
                                        inventario_agregado_df))
    /\ pc' = "done"
    /\ UNCHANGED <<request, vendas_df, inventario_df, vendas_agregadas_df,
                   inventario_agregado_df>>

\* Lines 156-164, 237-239: without a sales row min() and max() are NaT and
\* pd.date_range raises; the handler answers 500.
FailProcessing ==
    /\ pc = "aggregated"
    /\ vendas_df = <<>>
    /\ Return(ErrorResponse(500, "processing_error", <<>>))

Next ==
    \/ RejectNoSalesFile
    \/ RejectUnnamedSalesFile
    \/ RejectUnreadableSales
    \/ RejectSalesColumns
    \/ RejectUnreadableInventory
    \/ RejectInventoryColumns
    \/ Validate
    \/ Aggregate
    \/ Densify
    \/ FailProcessing

Spec == Init /\ [][Next]_vars

(***************************************************************************)
(* The request and the response as the claims speak of them.  Dates are    *)
(* those of the files: the <<year, month, day>> of the sales and inventory *)
(* CSVs and of the output CSV.                                             *)
(***************************************************************************)
SalesIn == request.sales_file.rows

InventoryIn == request.inventory_file.rows

\* The run ended with the CSV.
Succeeded == pc = "done" /\ response.status = 200

\* The run ended and validation had nothing to reject.
WellFormed == SalesValid(request) /\ InventoryValid(request)

DateLeq(a, b) ==
    \/ a[1] < b[1]
    \/ a[1] = b[1] /\ a[2] < b[2]
    \/ a[1] = b[1] /\ a[2] = b[2] /\ a[3] <= b[3]

\* The calendar days of 2024 from the first to the last day of the sales.
SalesDays ==
    IF SalesIn = <<>> THEN {}
    ELSE LET days == Range(Col(SalesIn, "timestamp"))
             lo == CHOOSE a \in days : \A b \in days : DateLeq(a, b)
             hi == CHOOSE a \in days : \A b \in days : DateLeq(b, a)
         IN  {c \in UNION {{<<2024, m, d>> : d \in 1 .. MonthDays[m]} :
                              m \in lo[2] .. hi[2]} :
                 DateLeq(lo, c) /\ DateLeq(c, hi)}

SalesSeries == {SeriesId(SalesIn[i]) : i \in DOMAIN SalesIn}

\* The sales rows of day d and series s.
SalesOf(d, s) ==
    SelectSeq(SalesIn, LAMBDA r : r.timestamp = d /\ SeriesId(r) = s)

\* Series s sold item i, on any day.
SoldUnder(i, s) ==
    \E k \in DOMAIN SalesIn : SalesIn[k].item_id = i /\ SeriesId(SalesIn[k]) = s

\* The inventory rows of day d whose item series s sold.
InventoryOf(d, s) ==
    SelectSeq(InventoryIn,
              LAMBDA r : r.snapshot_date = d /\ SoldUnder(r.item_id, s))

\* The output rows of day d and series s.
OutOf(d, s) ==
    SelectSeq(response.rows, LAMBDA r : r.timestamp = d /\ r.series_id = s)

Quantity(rows) == SumSeq(Col(rows, "target_quantity"))

Revenue(rows) == SumSeq(Mul(Col(rows, "price"), Col(rows, "target_quantity")))

(***************************************************************************)
(* C1. Grid completeness: a successful run's output has exactly one row    *)
(* for every (day, series) with the day between the first and the last day *)
(* of the sales and the series one of the sales, and no other row, with or *)
(* without an inventory.                                                   *)
(***************************************************************************)
GridComplete ==
    Succeeded =>
        /\ {<<response.rows[i].timestamp, response.rows[i].series_id>> :
               i \in DOMAIN response.rows} = SalesDays \X SalesSeries
        /\ Len(response.rows) = Cardinality(SalesDays) * Cardinality(SalesSeries)

\* Two days by two series, with an inventory whose rows join two series and
\* leave another grid row without a match.
GridCompleteWitness ==
    /\ Succeeded
    /\ InventorySupplied(request)
    /\ Cardinality(SalesDays) = 2
    /\ Cardinality(SalesSeries) = 2
    /\ \E d \in SalesDays, s \in SalesSeries : InventoryOf(d, s) = <<>>
    /\ \E d \in SalesDays : \A s \in SalesSeries : InventoryOf(d, s) # <<>>

(***************************************************************************)
(* C2. Zero-fill: an output row without sales of its day and series has    *)
(* quantity 0 and price 0; with an inventory, an output row without        *)
(* inventory of its day and series has stock, ratio and count 0; and no    *)
(* numeric cell of the output is NaN.                                      *)
(***************************************************************************)
NumericColumns(r) == DOMAIN r \ {"timestamp", "series_id"}

ZeroFill ==
    Succeeded =>
        \A i \in DOMAIN response.rows :
            LET r == response.rows[i]
            IN  /\ SalesOf(r.timestamp, r.series_id) = <<>> =>
                       /\ r.total_quantity_sold = Num(0)
                       /\ r.preco_medio_praticado = Num(0)
                /\ (InventorySupplied(request)
                    /\ InventoryOf(r.timestamp, r.series_id) = <<>>) =>
                       /\ r.estoque_total_inicio_dia = Num(0)
                       /\ r.disponibilidade_sku_percentual = Num(0)
                       /\ r.numero_modelos_disponiveis = Num(0)
                /\ \A c \in NumericColumns(r) : r[c] # NaN

\* With an inventory: a row without sales and without inventory, beside a
\* row with both.
ZeroFillWitness ==
    /\ Succeeded
    /\ InventorySupplied(request)
    /\ \E i, j \in DOMAIN response.rows :
          LET r == response.rows[i]
              q == response.rows[j]
          IN  /\ SalesOf(r.timestamp, r.series_id) = <<>>
              /\ InventoryOf(r.timestamp, r.series_id) = <<>>
              /\ SalesOf(q.timestamp, q.series_id) # <<>>
              /\ q.estoque_total_inicio_dia # Num(0)

(***************************************************************************)
(* C3. Weighted price: for a day and series whose sales quantities sum to  *)
(* more than 0, the output row has that sum as its quantity and            *)
(* sum(price x quantity) / sum(quantity) as its price, over the rows of    *)
(* that day and series only.                                               *)
(***************************************************************************)
WeightedPrice ==
    Succeeded =>
        \A d \in SalesDays, s \in SalesSeries :
            LET g == SalesOf(d, s)
            IN  Quantity(g) > 0 =>
                    /\ Len(OutOf(d, s)) = 1
                    /\ OutOf(d, s)[1].total_quantity_sold = <<Quantity(g), 1>>
                    /\ LET price == OutOf(d, s)[1].preco_medio_praticado
                       IN  /\ price[2] > 0
                           /\ price[1] * Quantity(g) = Revenue(g) * price[2]

\* Quantity 2 at 10 and 1 at 20 on one day give 40/3, beside sales of
\* another day at another price.
WeightedPriceWitness ==
    /\ Succeeded
    /\ Len(response.rows) = 2
    /\ \E i, j \in DOMAIN response.rows :
          /\ response.rows[i].preco_medio_praticado = <<40, 3>>
          /\ response.rows[i].total_quantity_sold = <<3, 1>>
          /\ response.rows[j].preco_medio_praticado = <<20, 1>>

(***************************************************************************)
(* C4. Divide-by-zero guard: a well-formed run with a day and series whose *)
(* sales quantities sum to 0 succeeds, and the output row of that day and  *)
(* series has price exactly 0.                                             *)
(***************************************************************************)
ZeroQuantityGroups ==
    {k \in SalesDays \X SalesSeries :
        SalesOf(k[1], k[2]) # <<>> /\ Quantity(SalesOf(k[1], k[2])) = 0}

DivideByZeroGuard ==
    (pc = "done" /\ WellFormed /\ ZeroQuantityGroups # {}) =>
        /\ response.status = 200
        /\ \A k \in ZeroQuantityGroups :
              /\ Len(OutOf(k[1], k[2])) = 1
              /\ OutOf(k[1], k[2])[1].preco_medio_praticado = Num(0)

\* Two sales of quantity 0 at prices 10 and 20 (mean 15) on one day, beside
\* a day with a sold quantity.
DivideByZeroGuardWitness ==
    /\ Succeeded
    /\ \E k \in ZeroQuantityGroups :
          /\ Len(SalesOf(k[1], k[2])) = 2
          /\ Range(Col(SalesOf(k[1], k[2]), "price")) = {10, 20}
    /\ \E i \in DOMAIN response.rows : response.rows[i].total_quantity_sold # Num(0)

(***************************************************************************)
(* C5. Availability ratio: with an inventory, an output row whose day and  *)
(* series have inventory rows has as its count the number of distinct      *)
(* items in stock among exactly those rows, and as its ratio that count    *)
(* divided by the number of distinct items the series ever sold.           *)
(***************************************************************************)
InStock(rows) ==
    {rows[k].item_id : k \in {j \in DOMAIN rows : rows[j].quantity_on_hand > 0}}

EverSold(s) ==
    {SalesIn[k].item_id : k \in {j \in DOMAIN SalesIn : SeriesId(SalesIn[j]) = s}}

AvailabilityRatio ==
    (Succeeded /\ InventorySupplied(request)) =>
        \A i \in DOMAIN response.rows :
            LET r == response.rows[i]
                g == InventoryOf(r.timestamp, r.series_id)
                ratio == r.disponibilidade_sku_percentual
            IN  g # <<>> =>
                    /\ r.numero_modelos_disponiveis = <<Cardinality(InStock(g)), 1>>
                    /\ ratio[2] > 0
                    /\ ratio[1] * Cardinality(EverSold(r.series_id))
                           = Cardinality(InStock(g)) * ratio[2]

\* One of the two items a series sold is in stock: count 1, ratio 1/2.
AvailabilityRatioWitness ==
    /\ Succeeded
    /\ InventorySupplied(request)
    /\ \E i \in DOMAIN response.rows :
          /\ response.rows[i].numero_modelos_disponiveis = <<1, 1>>
          /\ response.rows[i].disponibilidade_sku_percentual = <<1, 2>>

(***************************************************************************)
(* C6. Unmapped inventory drop: an inventory row whose item no sales row   *)
(* has raises no error and changes nothing: the response is the one of the *)
(* same request without that row.                                          *)
(***************************************************************************)
Unmapped(i) ==
    \A k \in DOMAIN SalesIn : SalesIn[k].item_id # InventoryIn[i].item_id

Without(rows, i) == SubSeq(rows, 1, i - 1) \o SubSeq(rows, i + 1, Len(rows))

UnmappedInventoryDrop ==
    (pc = "done" /\ WellFormed /\ InventorySupplied(request)) =>
        \A i \in DOMAIN InventoryIn :
            Unmapped(i) =>
                response =
                    ProcessFrames(
                        ReadCsv(request.sales_file),
                        Frame(ReadCsv([request.inventory_file EXCEPT
                                          !.rows = Without(@, i)])))

\* A stocked row of an item never sold, on a day of the grid, beside a row
\* that is mapped and counted.
UnmappedInventoryDropWitness ==
    /\ Succeeded
    /\ InventorySupplied(request)
    /\ \E i \in DOMAIN InventoryIn :
          /\ Unmapped(i)
          /\ InventoryIn[i].quantity_on_hand > 0
          /\ InventoryIn[i].snapshot_date \in SalesDays
    /\ \E j \in DOMAIN response.rows :
          response.rows[j].estoque_total_inicio_dia # Num(0)

(***************************************************************************)
(* C7. Schema rejection: a sales table, or a supplied inventory table,     *)
(* that lacks required columns ends the run in a 400 that lists every      *)
(* absent column of that table, with no step run after validation and no   *)
(* CSV; no inventory at all is not an input error.                         *)
(***************************************************************************)
NothingProcessed ==
    /\ pc \in {"start", "done"}
    /\ vendas_df = <<>>
    /\ inventario_df = None
    /\ vendas_agregadas_df = <<>>
    /\ inventario_agregado_df = None

Rejected(error, absent) ==
    /\ response.status = 400
    /\ response.error = error
    /\ Range(response.missing) = absent
    /\ Len(response.missing) = Cardinality(absent)
    /\ response.header = <<>>
    /\ response.rows = <<>>

SalesAbsentColumns == SalesColumns \ request.sales_file.columns

InventoryAbsentColumns == InventoryColumns \ request.inventory_file.columns

SchemaRejection ==
    /\ (SalesLoadable(request) /\ SalesAbsentColumns # {}) =>
           /\ NothingProcessed
           /\ pc = "done" => Rejected("sales_columns_missing", SalesAbsentColumns)
    /\ (/\ SalesValid(request)
        /\ InventorySupplied(request)
        /\ request.inventory_file.readable
        /\ InventoryAbsentColumns # {}) =>
           /\ NothingProcessed
           /\ pc = "done" =>
                  Rejected("inventory_columns_missing", InventoryAbsentColumns)
    /\ (pc = "done" /\ SalesValid(request) /\ ~request.inventory_file.present) =>
           /\ response.status # 400
           /\ SalesIn # <<>> => response.status = 200

\* A sales file with a data row and without three of its columns, price
\* among them, rejected.
SchemaRejectionWitness ==
    /\ pc = "done"
    /\ SalesLoadable(request)
    /\ SalesIn # <<>>
    /\ "price" \in SalesAbsentColumns
    /\ Cardinality(SalesAbsentColumns) = 3
    /\ response.status = 400

(***************************************************************************)
(* C8. Column-set switch: a successful run's output has the 4 sales        *)
(* columns without an inventory and those and the 3 inventory columns with *)
(* one, whatever the inventory's rows; the 4 shared columns are those of   *)
(* the run on the same sales without an inventory.                         *)
(***************************************************************************)
FourColumns ==
    {"timestamp", "series_id", "total_quantity_sold", "preco_medio_praticado"}

SevenColumns ==
    FourColumns \cup {"estoque_total_inicio_dia", "disponibilidade_sku_percentual",
                      "numero_modelos_disponiveis"}

ColumnSetSwitch ==
    Succeeded =>
        LET cols == IF InventorySupplied(request) THEN SevenColumns ELSE FourColumns
        IN  /\ Range(response.header) = cols
            /\ Len(response.header) = Cardinality(cols)
            /\ \A i \in DOMAIN response.rows : DOMAIN response.rows[i] = cols
            /\ [i \in DOMAIN response.rows |->
                   [c \in FourColumns |-> response.rows[i][c]]]
                   = ProcessFrames(ReadCsv(request.sales_file), None).rows

\* An inventory of one row of an item never sold and one row of a day
\* outside the sales: 7 columns all the same.
ColumnSetSwitchWitness ==
    /\ Succeeded
    /\ InventorySupplied(request)
    /\ Len(response.header) = 7
    /\ \E i \in DOMAIN InventoryIn : Unmapped(i)
    /\ \E i \in DOMAIN InventoryIn :
          ~Unmapped(i) /\ InventoryIn[i].snapshot_date \notin SalesDays
    /\ \A i \in DOMAIN InventoryIn :
          Unmapped(i) \/ InventoryIn[i].snapshot_date \notin SalesDays

(***************************************************************************)
(* C9. Empty input is not an error: a well-formed run whose sales table    *)
(* has no rows, or whose inventory rows are all unmapped, ends with the    *)
(* CSV.                                                                    *)
(***************************************************************************)
EmptyInputCompletes ==
    (/\ pc = "done"
     /\ WellFormed
     /\ \/ SalesIn = <<>>
        \/ InventorySupplied(request) /\ \A i \in DOMAIN InventoryIn : Unmapped(i)) =>
        response.status = 200

(***************************************************************************)
(* C10. The item-to-series mapping is single-valued: the item of an        *)
(* inventory row is mapped to at most one series, the row is joined to at  *)
(* most one series, and so a day's stock summed over the series of the     *)
(* output never exceeds the stock of that day's inventory rows.            *)
(***************************************************************************)
StockOfDay(d) ==
    SumSeq(Col(SelectSeq(InventoryIn, LAMBDA r : r.snapshot_date = d),
               "quantity_on_hand"))

OutputStockOfDay(d) ==
    LET rows == SelectSeq(response.rows, LAMBDA r : r.timestamp = d)
    IN  SumSeq([i \in DOMAIN rows |-> rows[i].estoque_total_inicio_dia[1]])

\* The series the mapping of lines 108-109 gives item i.
MappedSeries(i) ==
    {m.series_id : m \in {n \in Range(MapaId(vendas_df)) : n.item_id = i}}

MappingSingleValued ==
    (Succeeded /\ InventorySupplied(request)) =>
        /\ \A i \in DOMAIN InventoryIn :
              Cardinality(MappedSeries(InventoryIn[i].item_id)) <= 1
        /\ Len(inventario_df.rows) <= Len(InventoryIn)
        /\ \A d \in SalesDays : OutputStockOfDay(d) <= StockOfDay(d)

====
